---------------------------- MODULE Spec2Model ----------------------------
(***************************************************************************)
(* A model of rwc: the scan strategies of count.rs, the per-input          *)
(* dispatcher, path-list ingestion and the batch orchestrator of main.rs.  *)
(*                                                                         *)
(* Bytes are the naturals 0..255.  Option<T> is a sequence of length at    *)
(* most one (<<>> is None, <<n>> is Some(n)).  A readable is the sequence  *)
(* of the results of its read calls: a non-empty chunk of bytes or an I/O  *)
(* error; once the sequence is used up every further read returns end of   *)
(* stream, or (a "stuck" readable, such as a directory opened as a file)   *)
(* fails again.                                                            *)
(***************************************************************************)
EXTENDS Naturals, Integers, Sequences, FiniteSets, TLC

(***************************************************************************)
(* Bounds of the model.                                                    *)
(***************************************************************************)
\* longest stream of arbitrary bytes, read in every possible chunking
MaxLen == 3
\* most UTF-8 units (scalar values, invalid or truncated sequences) of a text
MaxUnits == 3
\* largest capacity of the BufReader a text is read through
MaxCap == 3
\* most explicit paths given to run
MaxPaths == 3
\* most read results (bytes and failed reads) of a path-list stream
MaxListLen == 4
\* the failed reads of a path list that the model keeps one by one
MaxSplitErrs == 6

\* const BUFFER_SIZE: usize = 1048576;
BUFFER_SIZE == 1048576

(***************************************************************************)
(* Values.                                                                 *)
(***************************************************************************)
None == <<>>
Some(n) == <<n>>

\* struct Counts { bytes, chars, words, lines }, each a Count { val: Option<usize> }
Counts(b, c, w, l) == [bytes |-> b, chars |-> c, words |-> w, lines |-> l]

NoCounts == Counts(None, None, None, None)

\* Result<Counts, Error>; the error is the variant of enum Error
Ok(c) == [ok |-> TRUE, counts |-> c, err |-> "none"]
Err(e) == [ok |-> FALSE, counts |-> NoCounts, err |-> e]

\* one read call's result
Chunk(bs) == [ok |-> TRUE, buf |-> bs]
IoFail == [ok |-> FALSE, buf |-> <<>>]

Readable(reads, stuck) == [reads |-> reads, stuck |-> stuck]

(***************************************************************************)
(* BufReader over a readable.                                              *)
(***************************************************************************)
\* BufRead::fill_buf: the buffered bytes, a new chunk from the source, the
\* empty buffer at end of stream, or the source's error
fill_buf(reader) ==
  IF reader.reads = <<>>
    THEN (IF reader.stuck THEN IoFail ELSE Chunk(<<>>))
    ELSE Head(reader.reads)

\* BufRead::consume(n): n <= the length of the buffer fill_buf returned
consume(reader, n) ==
  LET buf == Head(reader.reads).buf
  IN IF n >= Len(buf)
       THEN [reader EXCEPT !.reads = Tail(reader.reads)]
       ELSE [reader EXCEPT !.reads = <<Chunk(SubSeq(buf, n + 1, Len(buf)))>> \o Tail(reader.reads)]

\* a variant: the whitespace of C's isspace, which adds VT (0x0B)
u8_is_space(b) == b \in {32, 9, 10, 11, 12, 13}

\* u8::is_ascii_whitespace: U+0020 SPACE, U+0009 TAB, U+000A LF, U+000C FF,
\* U+000D CR
u8_is_ascii_whitespace(b) == b \in {32, 9, 10, 12, 13}

\* a variant: char::is_whitespace, the Unicode White_Space property
char_is_whitespace(c) ==
  c \in {32, 9, 10, 11, 12, 13, 133, 160, 5760, 8232, 8233, 8239, 8287, 12288}
    \/ (c >= 8192 /\ c <= 8202)

\* char::is_ascii_whitespace: the same five, as scalar values
char_is_ascii_whitespace(c) == c \in {32, 9, 10, 12, 13}

(***************************************************************************)
(* The scan strategies.                                                    *)
(***************************************************************************)
\* the body of `for &b in buffer`
scan_byte(st, b) ==
  LET lines == st.lines + (IF b = 10 THEN 1 ELSE 0)
  IN IF u8_is_ascii_whitespace(b)
       THEN [st EXCEPT !.lines = lines,
                       !.words = st.words + (IF st.in_word THEN 1 ELSE 0),
                       !.in_word = FALSE]
       ELSE [st EXCEPT !.lines = lines, !.in_word = TRUE]

\* `for &b in buffer`: the counters after the first n bytes of buffer
RECURSIVE scan_buffer(_, _, _)
scan_buffer(st, buffer, n) ==
  IF n = 0 THEN st
  ELSE scan_byte(scan_buffer(st, buffer, n - 1), buffer[n])

\* `if in_word { words += 1 }` after the loop
flush_word(st) == st.words + (IF st.in_word THEN 1 ELSE 0)

RECURSIVE count_bytes_words_lines_loop(_, _)
count_bytes_words_lines_loop(reader, st) ==
  LET r == fill_buf(reader)
      len == Len(r.buf)
  IN IF ~r.ok THEN Err("IO")
     ELSE IF len = 0
       THEN Ok(Counts(Some(st.bytes), None, Some(flush_word(st)), Some(st.lines)))
     ELSE count_bytes_words_lines_loop(
            consume(reader, len),
            scan_buffer([st EXCEPT !.bytes = st.bytes + len], r.buf, len))

ScanStart == [bytes |-> 0, chars |-> 0, words |-> 0, lines |-> 0, in_word |-> FALSE]

count_bytes_words_lines(reader) == count_bytes_words_lines_loop(reader, ScanStart)

\* bytecount::count(buffer, b'\n')
RECURSIVE bytecount(_, _)
bytecount(buffer, b) ==
  IF buffer = <<>> THEN 0
  ELSE (IF Head(buffer) = b THEN 1 ELSE 0) + bytecount(Tail(buffer), b)

RECURSIVE count_bytes_lines_loop(_, _)
count_bytes_lines_loop(reader, st) ==
  LET r == fill_buf(reader)
      len == Len(r.buf)
  IN IF ~r.ok THEN Err("IO")
     ELSE IF len = 0
       THEN Ok(Counts(Some(st.bytes), None, None, Some(st.lines)))
     ELSE count_bytes_lines_loop(
            consume(reader, len),
            [st EXCEPT !.bytes = st.bytes + len,
                       !.lines = st.lines + bytecount(r.buf, 10)])

count_bytes_lines(reader) == count_bytes_lines_loop(reader, ScanStart)

(***************************************************************************)
(* Strict UTF-8 decoding: core::str::from_utf8 and utf8::BufReadDecoder,   *)
(* the library calls behind decoder.next_strict().                         *)
(***************************************************************************)
is_continuation(b) == b >= 128 /\ b <= 191

\* core::str::utf8_char_width
utf8_char_width(b) ==
  IF b < 128 THEN 1
  ELSE IF b >= 194 /\ b <= 223 THEN 2
  ELSE IF b >= 224 /\ b <= 239 THEN 3
  ELSE IF b >= 240 /\ b <= 244 THEN 4
  ELSE 0

\* the second byte a 3- or 4-byte sequence admits after its first byte
second_byte_ok(first, b) ==
  \/ first = 224 /\ b >= 160 /\ b <= 191
  \/ first >= 225 /\ first <= 236 /\ is_continuation(b)
  \/ first = 237 /\ b >= 128 /\ b <= 159
  \/ first >= 238 /\ first <= 239 /\ is_continuation(b)
  \/ first = 240 /\ b >= 144 /\ b <= 191
  \/ first >= 241 /\ first <= 243 /\ is_continuation(b)
  \/ first = 244 /\ b >= 128 /\ b <= 143

\* one sequence of v starting at i: "ok" with its width, "bad" with the
\* error_len of Utf8Error, "need" when v ends inside the sequence
utf8_sequence(v, i) ==
  LET first == v[i]
      w == utf8_char_width(first)
      has(k) == i + k <= Len(v)
  IN IF w = 1 THEN [kind |-> "ok", n |-> 1]
     ELSE IF w = 0 THEN [kind |-> "bad", n |-> 1]
     ELSE IF ~has(1) THEN [kind |-> "need", n |-> 0]
     ELSE IF w = 2 /\ ~is_continuation(v[i + 1]) THEN [kind |-> "bad", n |-> 1]
     ELSE IF w > 2 /\ ~second_byte_ok(first, v[i + 1]) THEN [kind |-> "bad", n |-> 1]
     ELSE IF w = 2 THEN [kind |-> "ok", n |-> 2]
     ELSE IF ~has(2) THEN [kind |-> "need", n |-> 0]
     ELSE IF ~is_continuation(v[i + 2]) THEN [kind |-> "bad", n |-> 2]
     ELSE IF w = 3 THEN [kind |-> "ok", n |-> 3]
     ELSE IF ~has(3) THEN [kind |-> "need", n |-> 0]
     ELSE IF ~is_continuation(v[i + 3]) THEN [kind |-> "bad", n |-> 3]
     ELSE [kind |-> "ok", n |-> 4]

\* str::from_utf8(v): error is "none", or Utf8Error with valid_up_to and
\* error_len ("bad": Some(n), "need": None)
RECURSIVE from_utf8_at(_, _)
from_utf8_at(v, i) ==
  IF i > Len(v) THEN [error |-> "none", valid_up_to |-> Len(v), n |-> 0]
  ELSE LET s == utf8_sequence(v, i)
       IN IF s.kind = "ok" THEN from_utf8_at(v, i + s.n)
          ELSE [error |-> s.kind, valid_up_to |-> i - 1, n |-> s.n]

from_utf8(v) == from_utf8_at(v, 1)

\* the scalar value of the (valid) sequence of str starting at i
code_point(str, i) ==
  LET w == utf8_char_width(str[i])
  IN IF w = 1 THEN str[i]
     ELSE IF w = 2 THEN (str[i] - 192) * 64 + (str[i + 1] - 128)
     ELSE IF w = 3 THEN (str[i] - 224) * 4096 + (str[i + 1] - 128) * 64 + (str[i + 2] - 128)
     ELSE (str[i] - 240) * 262144 + (str[i + 1] - 128) * 4096
          + (str[i + 2] - 128) * 64 + (str[i + 3] - 128)

\* a variant: `chars += c.len_utf8()`
scan_char_len_utf8(st, c) ==
  LET len_utf8 == IF c < 128 THEN 1 ELSE IF c < 2048 THEN 2 ELSE IF c < 65536 THEN 3 ELSE 4
      lines == st.lines + (IF c = 10 THEN 1 ELSE 0)
  IN IF c \in {32, 9, 10, 12, 13}
       THEN [st EXCEPT !.chars = st.chars + len_utf8,
                       !.lines = lines,
                       !.words = st.words + (IF st.in_word THEN 1 ELSE 0),
                       !.in_word = FALSE]
       ELSE [st EXCEPT !.chars = st.chars + len_utf8, !.lines = lines, !.in_word = TRUE]

\* the body of `for c in str.chars()`
scan_char(st, c) ==
  LET lines == st.lines + (IF c = 10 THEN 1 ELSE 0)
  IN IF char_is_ascii_whitespace(c)
       THEN [st EXCEPT !.chars = st.chars + 1,
                       !.lines = lines,
                       !.words = st.words + (IF st.in_word THEN 1 ELSE 0),
                       !.in_word = FALSE]
       ELSE [st EXCEPT !.chars = st.chars + 1, !.lines = lines, !.in_word = TRUE]

\* str.chars(): the scalar values of str from byte i on
RECURSIVE chars_from(_, _)
chars_from(str, i) ==
  IF i > Len(str) THEN <<>>
  ELSE <<code_point(str, i)>> \o chars_from(str, i + utf8_char_width(str[i]))

\* `for c in str.chars()`: the counters after the first n scalar values
RECURSIVE scan_chars(_, _, _)
scan_chars(st, chars, n) ==
  IF n = 0 THEN st
  ELSE scan_char(scan_chars(st, chars, n - 1), chars[n])

\* a variant: `bytes += str.chars().count()`
scan_str_counting_chars(st, str) ==
  LET chars == chars_from(str, 1)
  IN scan_chars([st EXCEPT !.bytes = st.bytes + Len(chars)], chars, Len(chars))

\* `bytes += str.len();` and the loop over str.chars()

scan_str(st, str) ==
  LET chars == chars_from(str, 1)
  IN scan_chars([st EXCEPT !.bytes = st.bytes + Len(str)], chars, Len(chars))

\* Incomplete::try_complete_offsets: the spliced bytes of the incomplete
\* sequence and the start of the buffer (the incomplete buffer holds 4 bytes)
spliced_with(incomplete, buf) ==
  LET room == 4 - Len(incomplete)
      copied == IF room < Len(buf) THEN room ELSE Len(buf)
  IN incomplete \o SubSeq(buf, 1, copied)

\* a variant: every decoder error reported as an I/O error
Error_from_BufReadDecoderError_io(err) == "IO"

\* impl From<BufReadDecoderError> for Error
Error_from_BufReadDecoderError(err) ==
  IF err = "InvalidByteSequence" THEN "UTF8" ELSE "IO"

\* the loop of count_bytes_chars_words_lines around decoder.next_strict():
\* incomplete is the decoder's pending start of a scalar value
RECURSIVE count_bytes_chars_words_lines_loop(_, _, _)
count_bytes_chars_words_lines_loop(reader, incomplete, st) ==
  LET r == fill_buf(reader)
      buf == r.buf
  IN IF ~r.ok THEN Err(Error_from_BufReadDecoderError("Io"))
     ELSE IF incomplete = <<>>
       THEN IF buf = <<>>
              THEN Ok(Counts(Some(st.bytes), Some(st.chars), Some(flush_word(st)), Some(st.lines)))
            ELSE LET v == from_utf8(buf)
                 IN IF v.error = "none"
                      THEN count_bytes_chars_words_lines_loop(
                             consume(reader, Len(buf)), <<>>, scan_str(st, buf))
                    ELSE IF v.valid_up_to > 0
                      THEN count_bytes_chars_words_lines_loop(
                             consume(reader, v.valid_up_to), <<>>,
                             scan_str(st, SubSeq(buf, 1, v.valid_up_to)))
                    ELSE IF v.error = "bad" THEN Err(Error_from_BufReadDecoderError("InvalidByteSequence"))
                    ELSE count_bytes_chars_words_lines_loop(
                           consume(reader, Len(buf)), buf, st)
     ELSE IF buf = <<>> THEN Err(Error_from_BufReadDecoderError("InvalidByteSequence"))
     ELSE LET spliced == spliced_with(incomplete, buf)
              v == from_utf8(spliced)
          IN IF v.error = "none"
               THEN count_bytes_chars_words_lines_loop(
                      consume(reader, Len(spliced) - Len(incomplete)), <<>>,
                      scan_str(st, spliced))
             ELSE IF v.valid_up_to > 0
               THEN count_bytes_chars_words_lines_loop(
                      consume(reader, v.valid_up_to - Len(incomplete)), <<>>,
                      scan_str(st, SubSeq(spliced, 1, v.valid_up_to)))
             ELSE IF v.error = "bad" THEN Err(Error_from_BufReadDecoderError("InvalidByteSequence"))
             ELSE count_bytes_chars_words_lines_loop(
                    consume(reader, Len(spliced) - Len(incomplete)), spliced, st)

count_bytes_chars_words_lines(reader) ==
  count_bytes_chars_words_lines_loop(reader, <<>>, ScanStart)

(***************************************************************************)
(* Files and the per-input dispatcher.                                     *)
(***************************************************************************)
\* what a path names: nothing, a directory (its size is the file system's
\* business: here one block), or a regular file, whose size is the length of
\* its content
Missing == [kind |-> "missing", content |-> <<>>, size |-> 0]
Directory == [kind |-> "dir", content |-> <<>>, size |-> 4096]
RegularFile(content) == [kind |-> "file", content |-> content, size |-> Len(content)]

\* content read in chunks of cap bytes, the last one shorter
RECURSIVE chunks_of(_, _)
chunks_of(content, cap) ==
  IF content = <<>> THEN <<>>
  ELSE IF Len(content) <= cap THEN <<Chunk(content)>>
  ELSE <<Chunk(SubSeq(content, 1, cap))>> \o chunks_of(SubSeq(content, cap + 1, Len(content)), cap)

\* BufReader::with_capacity(cap, readable): a read of the readable brings at
\* most cap bytes
RECURSIVE capped_reads(_, _)
capped_reads(reads, cap) ==
  IF reads = <<>> THEN <<>>
  ELSE IF ~Head(reads).ok THEN <<IoFail>> \o capped_reads(Tail(reads), cap)
  ELSE chunks_of(Head(reads).buf, cap) \o capped_reads(Tail(reads), cap)

BufReader_with_capacity(cap, readable) ==
  Readable(capped_reads(readable.reads, cap), readable.stuck)

\* File::open(path): a missing path fails; a directory opens, and every read
\* of it fails; a regular file gives its content, then the end of the stream
File_open(f) ==
  IF f.kind = "missing" THEN [ok |-> FALSE, file |-> Readable(<<>>, FALSE)]
  ELSE IF f.kind = "dir" THEN [ok |-> TRUE, file |-> Readable(<<>>, TRUE)]
  ELSE [ok |-> TRUE,
        file |-> Readable(IF f.content = <<>> THEN <<>> ELSE <<Chunk(f.content)>>, FALSE)]

\* fs::metadata(path)?.len()
metadata_len(f) ==
  IF f.kind = "missing" THEN None ELSE Some(f.size)

count_bytes(f) ==
  LET len == metadata_len(f)
  IN IF len = None THEN Err("IO")
     ELSE Ok(Counts(Some(len[1]), None, None, None))

\* a variant: the lines-only test made before the chars test
count_readable_strategy_lines_first(chars, words, lines) ==
  IF lines /\ ~words THEN "count_bytes_lines"
  ELSE IF chars THEN "count_bytes_chars_words_lines"
  ELSE "count_bytes_words_lines"

\* the strategy count_readable picks
count_readable_strategy(chars, words, lines) ==
  IF chars THEN "count_bytes_chars_words_lines"
  ELSE IF lines /\ ~words THEN "count_bytes_lines"
  ELSE "count_bytes_words_lines"

run_strategy(name, reader) ==
  IF name = "count_bytes_chars_words_lines" THEN count_bytes_chars_words_lines(reader)
  ELSE IF name = "count_bytes_lines" THEN count_bytes_lines(reader)
  ELSE count_bytes_words_lines(reader)

\* the result, and the calls made to get it
count_readable(readable, bytes, chars, words, lines) ==
  LET reader == BufReader_with_capacity(BUFFER_SIZE, readable)
      name == count_readable_strategy(chars, words, lines)
  IN [res |-> run_strategy(name, reader), calls |-> <<"count_readable", name>>]

\* impl<P: AsRef<Path>> CountablePath for P
CountablePath_count(f, bytes, chars, words, lines) ==
  IF bytes /\ ~(chars \/ words \/ lines)
    THEN [res |-> count_bytes(f), calls |-> <<"count_bytes">>]
  ELSE LET o == File_open(f)
       IN IF ~o.ok THEN [res |-> Err("IO"), calls |-> <<"File::open">>]
          ELSE LET c == count_readable(o.file, bytes, chars, words, lines)
               IN [res |-> c.res, calls |-> <<"File::open">> \o c.calls]

\* impl<R: Read> Countable for R
Countable_count(readable, bytes, chars, words, lines) ==
  count_readable(readable, bytes, chars, words, lines)

(***************************************************************************)
(* Paths and their order.  A path is its bytes; the paths of the model are *)
(* relative and have no "." component.                                     *)
(***************************************************************************)
\* Path::components: the non-empty runs of bytes between separators ('/')
RECURSIVE components_from(_, _, _)
components_from(p, i, cur) ==
  IF i > Len(p) THEN (IF cur = <<>> THEN <<>> ELSE <<cur>>)
  ELSE IF p[i] = 47
    THEN (IF cur = <<>> THEN <<>> ELSE <<cur>>) \o components_from(p, i + 1, <<>>)
  ELSE components_from(p, i + 1, Append(cur, p[i]))

components(p) == components_from(p, 1, <<>>)

\* Ord for byte strings: lexicographic
RECURSIVE bytes_cmp(_, _)
bytes_cmp(a, b) ==
  IF a = <<>> /\ b = <<>> THEN "Equal"
  ELSE IF a = <<>> THEN "Less"
  ELSE IF b = <<>> THEN "Greater"
  ELSE IF Head(a) < Head(b) THEN "Less"
  ELSE IF Head(a) > Head(b) THEN "Greater"
  ELSE bytes_cmp(Tail(a), Tail(b))

\* Iterator::cmp over the components
RECURSIVE components_cmp(_, _)
components_cmp(a, b) ==
  IF a = <<>> /\ b = <<>> THEN "Equal"
  ELSE IF a = <<>> THEN "Less"
  ELSE IF b = <<>> THEN "Greater"
  ELSE LET c == bytes_cmp(Head(a), Head(b))
       IN IF c # "Equal" THEN c ELSE components_cmp(Tail(a), Tail(b))

\* PathBuf::partial_cmp: always Some, the order of the components
PathBuf_partial_cmp(a, b) == Some(components_cmp(components(a), components(b)))

\* |a, b| a.1.partial_cmp(&b.1).unwrap_or_else(|| Ordering::Less)
compare_entries(a, b) ==
  LET o == PathBuf_partial_cmp(a.path, b.path)
  IN IF o = None THEN "Less" ELSE o[1]

\* par_sort_by: a stable sort; here by insertion, each entry after the
\* entries that are not greater than it
RECURSIVE insert_entry(_, _)
insert_entry(sorted, e) ==
  IF sorted = <<>> THEN <<e>>
  ELSE IF compare_entries(e, Head(sorted)) = "Less" THEN <<e>> \o sorted
  ELSE <<Head(sorted)>> \o insert_entry(Tail(sorted), e)

RECURSIVE sort_first(_, _)
sort_first(v, n) ==
  IF n = 0 THEN <<>> ELSE insert_entry(sort_first(v, n - 1), v[n])

\* a variant: par_sort_unstable_by, which may reverse equal entries
RECURSIVE insert_entry_unstable(_, _)
insert_entry_unstable(sorted, e) ==
  IF sorted = <<>> THEN <<e>>
  ELSE IF compare_entries(e, Head(sorted)) # "Greater" THEN <<e>> \o sorted
  ELSE <<Head(sorted)>> \o insert_entry_unstable(Tail(sorted), e)

RECURSIVE sort_first_unstable(_, _)
sort_first_unstable(v, n) ==
  IF n = 0 THEN <<>> ELSE insert_entry_unstable(sort_first_unstable(v, n - 1), v[n])

par_sort_by_unstable(v) == sort_first_unstable(v, Len(v))

par_sort_by(v) == sort_first(v, Len(v))

(***************************************************************************)
(* Errors of run, and path-list ingestion.                                 *)
(***************************************************************************)
\* enum Error: IO, UTF8, PATH(bytes), MANY(errors), CUSTOM
Error(kind) == [kind |-> kind, bytes |-> <<>>, errs |-> <<>>]
Error_PATH(bytes) == [kind |-> "PATH", bytes |-> bytes, errs |-> <<>>]
Error_MANY(errs) == [kind |-> "MANY", bytes |-> <<>>, errs |-> errs]
NoError == Error("none")

\* Result<(), Error> of run
Returned_Ok == [ok |-> TRUE, error |-> NoError]
Returned_Err(e) == [ok |-> FALSE, error |-> e]

\* a failed read is over: the next read call is the next one of the
\* readable, and a stuck readable fails again
after_error(reader) ==
  IF reader.reads = <<>> THEN reader
  ELSE [reader EXCEPT !.reads = Tail(reader.reads)]

\* the index of the first delim in available, 0 if none (memchr)
RECURSIVE memchr(_, _, _)
memchr(delim, available, i) ==
  IF i > Len(available) THEN 0
  ELSE IF available[i] = delim THEN i
  ELSE memchr(delim, available, i + 1)

\* BufRead::read_until(delim, buf): the bytes up to and including delim, or
\* to the end of the stream, appended to buf; or the error of a read
RECURSIVE read_until(_, _, _)
read_until(reader, delim, buf) ==
  LET r == fill_buf(reader)
      at == memchr(delim, r.buf, 1)
  IN IF ~r.ok THEN [ok |-> FALSE, buf |-> buf, reader |-> after_error(reader)]
     ELSE IF r.buf = <<>> THEN [ok |-> TRUE, buf |-> buf, reader |-> reader]
     ELSE IF at > 0
       THEN [ok |-> TRUE, buf |-> buf \o SubSeq(r.buf, 1, at), reader |-> consume(reader, at)]
     ELSE read_until(consume(reader, Len(r.buf)), delim, buf \o r.buf)

\* Split::next: None at the end of the stream, Some(Ok(segment)) without its
\* delimiter, or Some(Err(e)); item is the Option, reader what is left
Split_next_item(reader, delim) ==
  LET r == read_until(reader, delim, <<>>)
      n == Len(r.buf)
  IN IF ~r.ok THEN [item |-> Some([ok |-> FALSE, buf |-> <<>>]), reader |-> r.reader]
     ELSE IF n = 0 THEN [item |-> None, reader |-> r.reader]
     ELSE IF r.buf[n] = delim
       THEN [item |-> Some([ok |-> TRUE, buf |-> SubSeq(r.buf, 1, n - 1)]), reader |-> r.reader]
     ELSE [item |-> Some([ok |-> TRUE, buf |-> r.buf]), reader |-> r.reader]

IsOkItem(x) == x.ok
IsErrItem(x) == ~x.ok

\* String::from_utf8(fname)
String_from_utf8(fname) == [ok |-> from_utf8(fname).error = "none", buf |-> fname]

\* a variant: the invalid names dropped and the valid ones returned
read_paths0_from_tail_lossy(items) ==
  LET decoded == [i \in 1..Len(SelectSeq(items, IsOkItem)) |->
                    String_from_utf8(SelectSeq(items, IsOkItem)[i].buf)]
      names == SelectSeq(decoded, IsOkItem)
  IN [ok |-> TRUE, paths |-> [i \in 1..Len(names) |-> names[i].buf], error |-> NoError]

\* read_paths0_from after the split iterator is used up: items are the
\* results it gave
read_paths0_from_tail(items) ==
  LET fnames == SelectSeq(items, IsOkItem)
      errors == SelectSeq(items, IsErrItem)
      decoded == [i \in 1..Len(fnames) |-> String_from_utf8(fnames[i].buf)]
      names == SelectSeq(decoded, IsOkItem)
      invalid == SelectSeq(decoded, IsErrItem)
  IN IF Len(errors) > 0
       THEN [ok |-> FALSE, paths |-> <<>>,
             error |-> Error_MANY([i \in 1..Len(errors) |-> Error("IO")])]
     ELSE IF Len(invalid) > 0
       THEN [ok |-> FALSE, paths |-> <<>>,
             error |-> Error_MANY([i \in 1..Len(invalid) |-> Error_PATH(invalid[i].buf)])]
     ELSE [ok |-> TRUE, paths |-> [i \in 1..Len(names) |-> names[i].buf], error |-> NoError]

(***************************************************************************)
(* Rendering: the rows print_csv and print_table build.                    *)
(***************************************************************************)
Metrics == <<"bytes", "chars", "words", "lines">>

\* the metrics opts asks for, in the order of the columns
requested_metrics(opts) == SelectSeq(Metrics, LAMBDA m : opts[m])

\* a variant: the total replaced by the count
add_count_overwriting(total, count) == IF count # None THEN count[1] ELSE total

\* impl ops::Add<Count> for usize
add_count(total, count) == IF count # None THEN total + count[1] ELSE total

\* one row: the path, and the requested counts or the error
print_row(entry, opts) ==
  LET cols == requested_metrics(opts)
  IN [path |-> entry.path,
      ok |-> entry.res.ok,
      cells |-> IF entry.res.ok THEN [i \in 1..Len(cols) |-> entry.res.counts[cols[i]]]
                ELSE <<>>,
      err |-> entry.res.err]

\* total_<m> after the first n results
RECURSIVE total_of(_, _, _)
total_of(results, m, n) ==
  IF n = 0 THEN 0
  ELSE IF results[n].res.ok THEN add_count(total_of(results, m, n - 1), results[n].res.counts[m])
  ELSE total_of(results, m, n - 1)

print(results, opts) ==
  LET cols == requested_metrics(opts)
  IN [header |-> <<"path">> \o cols,
      rows |-> [i \in 1..Len(results) |-> print_row(results[i], opts)],
      totals |-> IF opts.show_totals
                   THEN Some([i \in 1..Len(cols) |-> total_of(results, cols[i], Len(results))])
                   ELSE None]

(***************************************************************************)
(* State.                                                                  *)
(***************************************************************************)
VARIABLES
  src,      \* the content counted by the scan strategies, and its read chunks
  tally,    \* the results of the strategies called on src so far
  req,      \* one call of count: the input (a path or a stream) and the flags
  resp,     \* its result and the calls made to get it; None before the call
  args,     \* the arguments of run: opts, files0_from, files, input; and the
            \* file system, fs
  pc,       \* where run is: "start", "split", "count", "sort", "print", "done"
  opts,     \* run's `mut opts`
  split,    \* read_paths0_from: the reader, and the items the split gave so far
  paths,    \* the paths given to count_paths
  slots,    \* count_paths: the entry of each path, None until its worker is done
  counts,   \* run's `counts`: the entries (res, path); idx is the entry's slot
  output,   \* what print wrote; None before
  ret       \* what run returned; None before

scanVars == <<src, tally>>
dispatchVars == <<req, resp>>
runVars == <<args, pc, opts, split, paths, slots, counts, output, ret>>
vars == <<src, tally, req, resp, args, pc, opts, split, paths, slots, counts, output, ret>>

(***************************************************************************)
(* The parts of the state a specification leaves alone.                    *)
(***************************************************************************)
NoRequest ==
  [kind |-> "none", file |-> Missing, reader |-> Readable(<<>>, FALSE),
   bytes |-> FALSE, chars |-> FALSE, words |-> FALSE, lines |-> FALSE]

DispatchIdle == req = NoRequest /\ resp = None

Options(bytes, chars, words, lines, show_totals) ==
  [bytes |-> bytes, chars |-> chars, words |-> words, lines |-> lines,
   show_totals |-> show_totals]

NoSplit == [reader |-> Readable(<<>>, FALSE), items |-> <<>>, beyond |-> 0]

RunIdle ==
  /\ args = [opts |-> Options(FALSE, FALSE, FALSE, FALSE, FALSE), files0_from |-> None,
             files |-> <<>>, input |-> Readable(<<>>, FALSE), fs |-> <<>>]
  /\ pc = "idle"
  /\ opts = args.opts
  /\ split = NoSplit
  /\ paths = <<>>
  /\ slots = <<>>
  /\ counts = <<>>
  /\ output = None
  /\ ret = None

(***************************************************************************)
(* SpecScan: the strategies of count.rs, each called on the same content.  *)
(***************************************************************************)
\* all byte sequences over S of length at most n
SeqsUpTo(S, n) == UNION {[1..k -> S] : k \in 0..n}

\* content cut after the positions in cuts
RECURSIVE cut_at(_, _, _)
cut_at(content, cuts, from) ==
  LET next == {c \in cuts : c >= from}
  IN IF from > Len(content) THEN <<>>
     ELSE IF next = {} THEN <<Chunk(SubSeq(content, from, Len(content)))>>
     ELSE LET c == CHOOSE x \in next : \A y \in next : x <= y
          IN <<Chunk(SubSeq(content, from, c))>> \o cut_at(content, cuts, c + 1)

\* every way to read content in non-empty chunks
Chunkings(content) ==
  {cut_at(content, cuts, 1) : cuts \in SUBSET (1..(Len(content) - 1))}

\* the five ASCII whitespace bytes, VT (0x0B), 'A', and 0xA0
ScanBytes == {9, 10, 11, 12, 13, 32, 65, 160}

\* 'A', LF, U+00E9, U+20AC, U+1F600; 0xFF, and the starts of a 2-byte and of
\* a 4-byte sequence
Utf8Units == {<<65>>, <<10>>, <<195, 169>>, <<226, 130, 172>>, <<240, 159, 152, 128>>,
              <<255>>, <<195>>, <<240, 159>>}

\* the text of test_run_stdin
StdinText ==
  <<116, 104, 105, 115, 32, 105, 115, 32, 115, 111, 109, 101, 32, 116, 101, 120,
    116, 10, 116, 104, 105, 115, 32, 105, 115, 32, 97, 110, 111, 116, 104, 101,
    114, 32, 108, 105, 110, 101>>

\* the capacity the tests of count.rs read their text with
TestCapacity == 10

RECURSIVE Texts(_)
Texts(n) ==
  IF n = 0 THEN {<<>>}
  ELSE LET shorter == Texts(n - 1)
       IN shorter \cup {t \o u : t \in shorter, u \in Utf8Units}

Strategies == <<"count_bytes", "count_bytes_lines", "count_bytes_words_lines",
                "count_bytes_chars_words_lines">>

NotCalled == [s \in {Strategies[i] : i \in 1..Len(Strategies)} |-> None]

InitScan ==
  /\ \E content \in SeqsUpTo(ScanBytes, MaxLen) :
       \E reads \in Chunkings(content) :
         src = [content |-> content, reads |-> reads]
  /\ tally = NotCalled
  /\ DispatchIdle
  /\ RunIdle

Capacities == (1..MaxCap) \cup {TestCapacity, BUFFER_SIZE}

InitText ==
  /\ \E content \in Texts(MaxUnits) :
       \E cap \in Capacities :
         src = [content |-> content, reads |-> chunks_of(content, cap)]
  /\ tally = NotCalled
  /\ DispatchIdle
  /\ RunIdle

\* the text of test_run_stdin, read in one chunk and in chunks of 10 bytes
InitTest ==
  /\ \E content \in {StdinText} :
       \E cap \in {TestCapacity, BUFFER_SIZE} :
         src = [content |-> content, reads |-> chunks_of(content, cap)]
  /\ tally = NotCalled
  /\ DispatchIdle
  /\ RunIdle

\* a source whose read fails after k chunks
InitFailing ==
  /\ \E content \in Texts(MaxUnits - 1) :
       \E cap \in Capacities :
         LET chunks == chunks_of(content, cap)
         IN \E k \in 0..Len(chunks) :
              src = [content |-> content, reads |-> SubSeq(chunks, 1, k) \o <<IoFail>>]
  /\ tally = NotCalled
  /\ DispatchIdle
  /\ RunIdle

\* the strategies are called in the order of Strategies
Called(name) == tally[name] # None
Callable(i) ==
  /\ ~Called(Strategies[i])
  /\ \A j \in 1..(i - 1) : Called(Strategies[j])

Call_count_bytes ==
  /\ Callable(1)
  /\ tally' = [tally EXCEPT !["count_bytes"] = Some(count_bytes(RegularFile(src.content)))]
  /\ UNCHANGED <<src, dispatchVars, runVars>>

Call_count_bytes_lines ==
  /\ Callable(2)
  /\ tally' = [tally EXCEPT !["count_bytes_lines"] =
                 Some(count_bytes_lines(Readable(src.reads, FALSE)))]
  /\ UNCHANGED <<src, dispatchVars, runVars>>

Call_count_bytes_words_lines ==
  /\ Callable(3)
  /\ tally' = [tally EXCEPT !["count_bytes_words_lines"] =
                 Some(count_bytes_words_lines(Readable(src.reads, FALSE)))]
  /\ UNCHANGED <<src, dispatchVars, runVars>>

Call_count_bytes_chars_words_lines ==
  /\ Callable(4)
  /\ tally' = [tally EXCEPT !["count_bytes_chars_words_lines"] =
                 Some(count_bytes_chars_words_lines(Readable(src.reads, FALSE)))]
  /\ UNCHANGED <<src, dispatchVars, runVars>>

NextScan ==
  \/ Call_count_bytes
  \/ Call_count_bytes_lines
  \/ Call_count_bytes_words_lines
  \/ Call_count_bytes_chars_words_lines

SpecScan == (InitScan \/ InitText \/ InitTest \/ InitFailing) /\ [][NextScan]_vars

(***************************************************************************)
(* SpecDispatch: one call of count on a path or on a stream, for every     *)
(* combination of the flags.                                               *)
(***************************************************************************)
ScanIdle == src = [content |-> <<>>, reads |-> <<>>] /\ tally = NotCalled

\* the empty content, two words on two lines, "e-acute A", and 0xFF
DispatchContents == {<<>>, <<65, 10, 65>>, <<195, 169, 32, 65>>, <<255>>}

InitDispatch ==
  /\ ScanIdle
  /\ RunIdle
  /\ \E bytes \in BOOLEAN, chars \in BOOLEAN, words \in BOOLEAN, lines \in BOOLEAN :
       \/ \E f \in {Missing, Directory} \cup {RegularFile(c) : c \in DispatchContents} :
            req = [kind |-> "path", file |-> f, reader |-> Readable(<<>>, FALSE),
                   bytes |-> bytes, chars |-> chars, words |-> words, lines |-> lines]
       \/ \E c \in DispatchContents :
            req = [kind |-> "stream", file |-> Missing,
                   reader |-> Readable(chunks_of(c, BUFFER_SIZE), FALSE),
                   bytes |-> bytes, chars |-> chars, words |-> words, lines |-> lines]
  /\ resp = None

\* path.count(bytes, chars, words, lines)
Count_path ==
  /\ req.kind = "path"
  /\ resp = None
  /\ resp' = Some(CountablePath_count(req.file, req.bytes, req.chars, req.words, req.lines))
  /\ UNCHANGED <<req, scanVars, runVars>>

\* input.count(bytes, chars, words, lines)
Count_stream ==
  /\ req.kind = "stream"
  /\ resp = None
  /\ resp' = Some(Countable_count(req.reader, req.bytes, req.chars, req.words, req.lines))
  /\ UNCHANGED <<req, scanVars, runVars>>

NextDispatch == Count_path \/ Count_stream

SpecDispatch == InitDispatch /\ [][NextDispatch]_vars

(***************************************************************************)
(* Spec: run, from its arguments to what it writes and returns.            *)
(***************************************************************************)
\* "-" and "Stdin"
Dash == <<45>>
StdinLabel == <<83, 116, 100, 105, 110>>

\* the file a path names in fs, which maps the components of the paths
\* that exist
file_at(fs, path) ==
  IF components(path) \in DOMAIN fs THEN fs[components(path)] ELSE Missing

\* (&path).count(opts.bytes, opts.chars, opts.words, opts.lines), and the
\* pair (c, path) of count_paths; idx is the place of path in paths
count_entry(fs, path, o, idx) ==
  [res |-> CountablePath_count(file_at(fs, path), o.bytes, o.chars, o.words, o.lines).res,
   path |-> path,
   idx |-> idx]

\* a variant: the failed counts dropped from the collection
collect_ok(filled) ==
  SelectSeq([i \in 1..Len(filled) |-> filled[i][1]], LAMBDA e : e.res.ok)

\* .collect() of the indexed parallel iterator: the entries in the order of
\* the paths
collect(filled) == [i \in 1..Len(filled) |-> filled[i][1]]

\* run returns Err(e)
Return_Err(e) ==
  /\ ret' = Some(Returned_Err(e))
  /\ pc' = "done"

\* count_paths(paths, &opts) begins
Begin_count_paths(ps) ==
  /\ paths' = ps
  /\ slots' = [i \in 1..Len(ps) |-> None]
  /\ pc' = "count"

\* a variant: the file operands not looked at
operands_ignored(files) == FALSE

\* `files.len() > 0` under `if let Some(from) = files0_from`
operands_given(files) == Len(files) > 0

\* `if files.len() > 0 { return Err(..) }` under `if let Some(from) = files0_from`
Run_conflict ==
  /\ pc = "start"
  /\ args.files0_from # None
  /\ operands_given(args.files)
  /\ Return_Err(Error("CUSTOM"))
  /\ UNCHANGED <<scanVars, dispatchVars, args, opts, split, paths, slots, counts, output>>

\* `if *from == PathBuf::from("-") { read_paths0_from(input)? }`: the call
Run_list_from_input ==
  /\ pc = "start"
  /\ args.files0_from # None
  /\ ~operands_given(args.files)
  /\ components(args.files0_from[1]) = components(Dash)
  /\ split' = [reader |-> args.input, items |-> <<>>, beyond |-> 0]
  /\ pc' = "split"
  /\ UNCHANGED <<scanVars, dispatchVars, args, opts, paths, slots, counts, output, ret>>

\* `match File::open(from) { Ok(f) => read_paths0_from(f)?, Err(e) => return Err(e.into()) }`
Run_list_from_file ==
  /\ pc = "start"
  /\ args.files0_from # None
  /\ ~operands_given(args.files)
  /\ components(args.files0_from[1]) # components(Dash)
  /\ LET o == File_open(file_at(args.fs, args.files0_from[1]))
     IN IF o.ok
          THEN /\ split' = [reader |-> o.file, items |-> <<>>, beyond |-> 0]
               /\ pc' = "split"
               /\ UNCHANGED ret
          ELSE /\ Return_Err(Error("IO"))
               /\ UNCHANGED split
  /\ UNCHANGED <<scanVars, dispatchVars, args, opts, paths, slots, counts, output>>

ErrItems(items) == SelectSeq(items, IsErrItem)

\* read_paths0_from: one item of BufReader::new(readable).split(b'\0'),
\* taken by partition. The vector of errors has no bound: items keeps
\* MaxSplitErrs of them, and beyond is the number of the errors taken after
\* those, modulo 2.
Split_next ==
  /\ pc = "split"
  /\ LET n == Split_next_item(split.reader, 0)
     IN /\ n.item # None
        /\ IF ~n.item[1].ok /\ Len(ErrItems(split.items)) >= MaxSplitErrs
             THEN split' = [reader |-> n.reader, items |-> split.items,
                            beyond |-> (split.beyond + 1) % 2]
             ELSE split' = [reader |-> n.reader, items |-> Append(split.items, n.item[1]),
                            beyond |-> split.beyond]
  /\ UNCHANGED <<scanVars, dispatchVars, args, pc, opts, paths, slots, counts, output, ret>>

\* read_paths0_from: the split is used up; the rest of the function, and in
\* run the `?` or the call of count_paths
Read_paths0_returns ==
  /\ pc = "split"
  /\ Split_next_item(split.reader, 0).item = None
  /\ LET r == read_paths0_from_tail(split.items)
     IN IF r.ok
          THEN /\ Begin_count_paths(r.paths)
               /\ UNCHANGED ret
          ELSE /\ Return_Err(r.error)
               /\ UNCHANGED <<paths, slots>>
  /\ UNCHANGED <<scanVars, dispatchVars, args, opts, split, counts, output>>

\* `else if files.len() > 0 { count_paths(files, &opts) }`
Run_files ==
  /\ pc = "start"
  /\ args.files0_from = None
  /\ Len(args.files) > 0
  /\ Begin_count_paths(args.files)
  /\ UNCHANGED <<scanVars, dispatchVars, args, opts, split, counts, output, ret>>

\* a variant: the options left as they were given
stdin_opts_as_given(o) == o

\* `opts.show_totals = true;`
stdin_opts(o) == [o EXCEPT !.show_totals = TRUE]

\* the last branch: standard input counted under the label "Stdin"
Run_stdin ==
  /\ pc = "start"
  /\ args.files0_from = None
  /\ Len(args.files) = 0
  /\ opts' = stdin_opts(opts)
  /\ counts' = <<[res |-> Countable_count(args.input, opts.bytes, opts.chars,
                                           opts.words, opts.lines).res,
                  path |-> StdinLabel,
                  idx |-> 1]>>
  /\ pc' = "sort"
  /\ UNCHANGED <<scanVars, dispatchVars, args, split, paths, slots, output, ret>>

\* count_paths: a worker of the pool counts one path and fills its slot
Worker(i) ==
  /\ pc = "count"
  /\ slots[i] = None
  /\ slots' = [slots EXCEPT ![i] = Some(count_entry(args.fs, paths[i], opts, i))]
  /\ UNCHANGED <<scanVars, dispatchVars, args, pc, opts, split, paths, counts, output, ret>>

Work == \E i \in DOMAIN slots : Worker(i)

\* count_paths returns: every worker is done
Collect ==
  /\ pc = "count"
  /\ \A i \in DOMAIN slots : slots[i] # None
  /\ counts' = collect(slots)
  /\ pc' = "sort"
  /\ UNCHANGED <<scanVars, dispatchVars, args, opts, split, paths, slots, output, ret>>

\* counts.par_sort_by(..)
Sort ==
  /\ pc = "sort"
  /\ counts' = par_sort_by(counts)
  /\ pc' = "print"
  /\ UNCHANGED <<scanVars, dispatchVars, args, opts, split, paths, slots, output, ret>>

\* print(fmt, counts, &opts, output)?; Ok(())
Print_counts ==
  /\ pc = "print"
  /\ output' = Some(print(counts, opts))
  /\ ret' = Some(Returned_Ok)
  /\ pc' = "done"
  /\ UNCHANGED <<scanVars, dispatchVars, args, opts, split, paths, slots, counts>>

Next ==
  \/ Run_conflict
  \/ Run_list_from_input
  \/ Run_list_from_file
  \/ Split_next
  \/ Read_paths0_returns
  \/ Run_files
  \/ Run_stdin
  \/ Work
  \/ Collect
  \/ Sort
  \/ Print_counts

\* the state of run when it is called with a
RunStart(a) ==
  /\ args = a
  /\ pc = "start"
  /\ opts = a.opts
  /\ split = NoSplit
  /\ paths = <<>>
  /\ slots = <<>>
  /\ counts = <<>>
  /\ output = None
  /\ ret = None

NoInput == Readable(<<>>, FALSE)

\* the flags of Options::from(&cli) with no flag given; with -c added; -c alone
RunOptions ==
  {Options(TRUE, FALSE, TRUE, TRUE, t) : t \in BOOLEAN}
    \cup {Options(TRUE, TRUE, TRUE, TRUE, FALSE), Options(TRUE, FALSE, FALSE, FALSE, FALSE)}

\* "a", "b/c" and "b//c", which names the same file as "b/c"
RunPaths == {<<97>>, <<98, 47, 99>>, <<98, 47, 47, 99>>}

\* two words on two lines; a text that is not UTF-8
GoodContent == <<65, 10, 65>>
BadContent == <<65, 32, 255>>

FileStates == {Missing, Directory, RegularFile(GoodContent), RegularFile(BadContent)}

\* explicit paths: every list of paths, every state of the files they name
InitFiles ==
  /\ ScanIdle
  /\ DispatchIdle
  /\ \E n \in 1..MaxPaths :
       \E files \in [1..n -> RunPaths] :
         \E fs \in [{components(<<97>>), components(<<98, 47, 99>>)} -> FileStates] :
           \E o \in RunOptions :
             RunStart([opts |-> o, files0_from |-> None, files |-> files,
                       input |-> NoInput, fs |-> fs])

\* no path and no path list: standard input is counted
InitStdin ==
  /\ ScanIdle
  /\ DispatchIdle
  /\ \E c \in {<<>>, GoodContent, BadContent, StdinText} :
       \E o \in RunOptions :
         \E failing \in BOOLEAN :
           RunStart([opts |-> o, files0_from |-> None, files |-> <<>>,
                     input |-> Readable(chunks_of(c, TestCapacity)
                                          \o (IF failing THEN <<IoFail>> ELSE <<>>), FALSE),
                     fs |-> <<>>])

\* NUL, LF, "a" and 0xFF; 256 stands for a read that fails
ListBytes == {0, 10, 97, 255}
FailedRead == 256

\* the reads of a stream: its bytes in chunks of cap bytes, and its failed reads
RECURSIVE list_reads(_, _, _)
list_reads(items, cap, run) ==
  IF items = <<>> THEN chunks_of(run, cap)
  ELSE IF Head(items) = FailedRead
    THEN chunks_of(run, cap) \o <<IoFail>> \o list_reads(Tail(items), cap, <<>>)
  ELSE list_reads(Tail(items), cap, Append(run, Head(items)))

ListPath == <<108>>

\* the file system of a run given a path list: "a" is a file, the list
\* file "l" is as given
ListFs(l) == (components(<<97>>) :> RegularFile(GoodContent)) @@ (components(ListPath) :> l)

\* a path list on standard input ("-"), or in the file "l"
InitList ==
  /\ ScanIdle
  /\ DispatchIdle
  /\ \/ \E items \in SeqsUpTo(ListBytes \cup {FailedRead}, MaxListLen) :
          \E cap \in {1, BUFFER_SIZE} :
            RunStart([opts |-> Options(TRUE, FALSE, TRUE, TRUE, FALSE),
                      files0_from |-> Some(Dash), files |-> <<>>,
                      input |-> Readable(list_reads(items, cap, <<>>), FALSE),
                      fs |-> ListFs(Missing)])
     \/ \E l \in {Missing, Directory, RegularFile(<<97, 0, 97, 47, 97>>),
                  RegularFile(<<97, 0, 255>>)} :
          RunStart([opts |-> Options(TRUE, FALSE, TRUE, TRUE, FALSE),
                    files0_from |-> Some(ListPath), files |-> <<>>,
                    input |-> NoInput, fs |-> ListFs(l)])

\* a path list together with explicit paths
InitConflict ==
  /\ ScanIdle
  /\ DispatchIdle
  /\ \E from \in {Dash, ListPath, <<>>} :
       \E l \in {Missing, RegularFile(<<97>>)} :
         RunStart([opts |-> Options(TRUE, FALSE, TRUE, TRUE, FALSE),
                   files0_from |-> Some(from), files |-> <<<<97>>>>,
                   input |-> Readable(<<Chunk(<<97>>)>>, FALSE), fs |-> ListFs(l)])

Init == InitFiles \/ InitStdin \/ InitList \/ InitConflict

Spec == Init /\ [][Next]_vars

\* read_paths0_from is running code: it takes the next item of the split
\* whenever there is one, and goes on when the split is used up
SpecFair == Spec /\ WF_vars(Split_next) /\ WF_vars(Read_paths0_returns)

(***************************************************************************)
(* Properties of the scan strategies (SpecScan).                           *)
(***************************************************************************)
Result(name) == tally[name][1]

\* some read of the source fails
Failing == \E i \in 1..Len(src.reads) : ~src.reads[i].ok

\* the bytes the source delivers before its first failing read
RECURSIVE delivered_of(_)
delivered_of(reads) ==
  IF reads = <<>> \/ ~Head(reads).ok THEN <<>>
  ELSE Head(reads).buf \o delivered_of(Tail(reads))

Delivered == delivered_of(src.reads)

\* 0x09, 0x0A, 0x0C, 0x0D, 0x20
AsciiWhitespace == {9, 10, 12, 13, 32}

\* the positions where a maximal run of non-whitespace bytes starts
WordStarts(content) ==
  {i \in 1..Len(content) :
     /\ content[i] \notin AsciiWhitespace
     /\ (i = 1 \/ content[i - 1] \in AsciiWhitespace)}

NewlineCount(content) == Cardinality({i \in 1..Len(content) : content[i] = 10})

\* one scalar value per byte that is not a continuation byte (10xxxxxx)
ScalarValueCount(content) ==
  Cardinality({i \in 1..Len(content) : content[i] < 128 \/ content[i] > 191})

ValidUtf8(content) == from_utf8(content).error = "none"

AllAscii(content) == \A i \in 1..Len(content) : content[i] < 128

\* C3: for every byte stream and every split of it into non-empty chunks,
\* count_bytes_words_lines returns words = the number of maximal runs of
\* bytes other than 0x09, 0x0A, 0x0C, 0x0D, 0x20, whether a word spans a
\* chunk boundary, ends the stream, or is followed by whitespace; the text
\* of test_run_stdin gives bytes=38, words=8, lines=1.
C3_WordCount ==
  (Called("count_bytes_words_lines") /\ ~Failing) =>
    LET r == Result("count_bytes_words_lines")
    IN /\ r.ok
       /\ r.counts.words = Some(Cardinality(WordStarts(src.content)))
       /\ (src.content = StdinText => r.counts = Counts(Some(38), None, Some(8), Some(1)))

\* a word cut by a chunk boundary and followed by whitespace at the end of
\* the stream has been counted once
C3_Witness ==
  /\ src.content = <<65, 65, 32>>
  /\ src.reads = <<Chunk(<<65>>), Chunk(<<65, 32>>)>>
  /\ Called("count_bytes_words_lines")
  /\ Result("count_bytes_words_lines").counts.words = Some(1)

\* C4: for every valid UTF-8 stream and every chunk size (chunks may cut a
\* scalar value), count_bytes_chars_words_lines succeeds with chars = the
\* number of scalar values and bytes = the byte length; chars <= bytes, with
\* equality only for pure ASCII.
C4_CharCount ==
  (Called("count_bytes_chars_words_lines") /\ ~Failing /\ ValidUtf8(src.content)) =>
    LET r == Result("count_bytes_chars_words_lines")
    IN /\ r.ok
       /\ r.counts.chars = Some(ScalarValueCount(src.content))
       /\ r.counts.bytes = Some(Len(src.content))
       /\ r.counts.chars[1] <= r.counts.bytes[1]
       /\ (r.counts.chars = r.counts.bytes <=> AllAscii(src.content))

\* "A", U+1F600 and LF, read in chunks of two bytes that cut the 4-byte
\* scalar value twice, have been counted as 3 chars in 6 bytes
C4_Witness ==
  /\ src.content = <<65, 240, 159, 152, 128, 10>>
  /\ src.reads = <<Chunk(<<65, 240>>), Chunk(<<159, 152>>), Chunk(<<128, 10>>)>>
  /\ Called("count_bytes_chars_words_lines")
  /\ Result("count_bytes_chars_words_lines").counts.chars = Some(3)
  /\ Result("count_bytes_chars_words_lines").counts.bytes = Some(6)

ByteStrategies == {"count_bytes", "count_bytes_lines", "count_bytes_words_lines"}

\* C5: every strategy that succeeds on a content reports bytes = the
\* content's length: count_bytes, count_bytes_lines, count_bytes_words_lines
\* (which succeed whenever the reads do), and count_bytes_chars_words_lines
\* (which succeeds whenever, besides, the content is valid UTF-8).
C5_BytesAgree ==
  /\ \A s \in DOMAIN tally :
       (Called(s) /\ Result(s).ok) => Result(s).counts.bytes = Some(Len(src.content))
  /\ \A s \in ByteStrategies : (Called(s) /\ ~Failing) => Result(s).ok
  /\ (Called("count_bytes_chars_words_lines") /\ ~Failing /\ ValidUtf8(src.content))
       => Result("count_bytes_chars_words_lines").ok

\* all four strategies have succeeded on a text with multi-byte scalar
\* values read in several chunks
C5_Witness ==
  /\ \A s \in DOMAIN tally : Called(s) /\ Result(s).ok
  /\ ~AllAscii(src.content)
  /\ Len(src.reads) > 1
  /\ Len(src.content) > 2

\* C6: on a stream of ASCII bytes count_bytes_words_lines and
\* count_bytes_chars_words_lines return the same words and the same lines,
\* and count_bytes_lines that same lines value, the number of 0x0A bytes.
C6_AsciiAgree ==
  (AllAscii(src.content) /\ ~Failing /\ \A s \in DOMAIN tally : Called(s)) =>
    LET wl == Result("count_bytes_words_lines")
        cwl == Result("count_bytes_chars_words_lines")
        l == Result("count_bytes_lines")
    IN /\ wl.ok /\ cwl.ok /\ l.ok
       /\ wl.counts.words = cwl.counts.words
       /\ wl.counts.lines = cwl.counts.lines
       /\ l.counts.lines = wl.counts.lines
       /\ l.counts.lines = Some(NewlineCount(src.content))

\* the three strategies have counted an ASCII stream of two words on two lines
C6_Witness ==
  /\ src.content = <<65, 10, 65>>
  /\ \A s \in DOMAIN tally : Called(s)
  /\ Result("count_bytes_chars_words_lines").counts.words = Some(2)
  /\ Result("count_bytes_lines").counts.lines = Some(1)

\* C8: decode-count is strict.  A stream that is not valid UTF-8 (a truncated
\* sequence at the end of the stream included) gives the UTF-8 error and no
\* Counts; the count ends at the first invalid sequence, so a read that would
\* fail after it is never made; a read that fails before any invalid
\* sequence is complete gives the I/O error.
C8_StrictDecoding ==
  Called("count_bytes_chars_words_lines") =>
    LET r == Result("count_bytes_chars_words_lines")
        v == from_utf8(Delivered)
    IN /\ (~Failing /\ ~ValidUtf8(src.content)) => r = Err("UTF8")
       /\ (Failing /\ v.error = "bad") => r = Err("UTF8")
       /\ (Failing /\ v.error # "bad") => r = Err("IO")

\* a stream ending inside a multi-byte sequence that was cut by a chunk
\* boundary has been refused with the UTF-8 error
C8_Witness ==
  /\ ~Failing
  /\ Len(src.reads) > 1
  /\ from_utf8(src.content).error = "need"
  /\ from_utf8(src.content).valid_up_to > 0
  /\ Called("count_bytes_chars_words_lines")
  /\ Result("count_bytes_chars_words_lines") = Err("UTF8")

(***************************************************************************)
(* Properties of the dispatcher (SpecDispatch).                            *)
(***************************************************************************)
Present(c) ==
  {m \in {"bytes", "chars", "words", "lines"} : c[m] # None}

Requested(r) ==
  {m \in {"bytes", "chars", "words", "lines"} : r[m]}

InSeq(x, seq) == \E i \in 1..Len(seq) : seq[i] = x

\* C7: a path is counted by length lookup, without opening the file, exactly
\* when only bytes is requested; every other call uses decode-count when
\* chars is requested, byte-scan lines-only when lines is requested without
\* words and chars, byte-scan words+lines otherwise; the Counts returned hold
\* bytes only; all four; bytes and lines; bytes, words and lines; in every
\* case at least one metric and every requested metric is present.
C7_StrategySelection ==
  resp # None =>
    LET out == resp[1]
        only_bytes == req.bytes /\ ~req.chars /\ ~req.words /\ ~req.lines
        lookup == out.calls = <<"count_bytes">>
        strategy == out.calls[Len(out.calls)]
        present == Present(out.res.counts)
    IN /\ lookup <=> (req.kind = "path" /\ only_bytes)
       /\ lookup => ~InSeq("File::open", out.calls) /\ ~InSeq("count_readable", out.calls)
       /\ (lookup /\ out.res.ok) => present = {"bytes"}
       /\ (~lookup /\ InSeq("count_readable", out.calls)) =>
            /\ req.chars => strategy = "count_bytes_chars_words_lines"
            /\ (~req.chars /\ req.lines /\ ~req.words) => strategy = "count_bytes_lines"
            /\ (~req.chars /\ ~(req.lines /\ ~req.words)) => strategy = "count_bytes_words_lines"
            /\ (out.res.ok /\ strategy = "count_bytes_chars_words_lines") =>
                 present = {"bytes", "chars", "words", "lines"}
            /\ (out.res.ok /\ strategy = "count_bytes_lines") => present = {"bytes", "lines"}
            /\ (out.res.ok /\ strategy = "count_bytes_words_lines") =>
                 present = {"bytes", "words", "lines"}
       /\ (~lookup /\ (req.kind = "stream" \/ req.file.kind # "missing")) =>
            InSeq("count_readable", out.calls)
       /\ out.res.ok => (present # {} /\ Requested(req) \subseteq present)

\* with only bytes requested, a directory (which opens, and whose reads fail)
\* has been counted by its length alone
C7_Witness ==
  /\ req.kind = "path"
  /\ req.file = Directory
  /\ req.bytes /\ ~req.chars /\ ~req.words /\ ~req.lines
  /\ resp = Some([res |-> Ok(Counts(Some(4096), None, None, None)),
                  calls |-> <<"count_bytes">>])

(***************************************************************************)
(* Properties of run (Spec).                                               *)
(***************************************************************************)
FilesMode == args.files0_from = None /\ args.files # <<>>
ListMode == args.files0_from # None /\ args.files = <<>>

\* count_paths has returned in this run
BatchCounted == pc \in {"sort", "print", "done"} /\ slots # <<>>

OnlyBytes(o) == o.bytes /\ ~o.chars /\ ~o.words /\ ~o.lines

\* the count of f cannot succeed: no such file; a file whose reads fail,
\* unless its length is all that is asked; not UTF-8 where chars are asked
MustFail(f, o) ==
  \/ f.kind = "missing"
  \/ f.kind = "dir" /\ ~OnlyBytes(o)
  \/ f.kind = "file" /\ o.chars /\ ~ValidUtf8(f.content)

\* the result of counting path alone
CountedAlone(path) ==
  CountablePath_count(file_at(args.fs, path), args.opts.bytes, args.opts.chars,
                      args.opts.words, args.opts.lines).res

\* C1: for every list of input paths and every subset of them whose count
\* fails (missing file, read error, invalid UTF-8), count_paths returns
\* exactly one entry per input path, each paired with its own path; the
\* failing inputs carry an error, every other input the Counts it gets when
\* counted alone; run goes on to sort and print and returns Ok.
C1_BatchIsolation ==
  /\ pc \in {"count", "sort", "print"} => ret = None
  /\ BatchCounted =>
       /\ Len(counts) = Len(paths)
       /\ \A i \in 1..Len(paths) :
            /\ Cardinality({k \in 1..Len(counts) : counts[k].idx = i}) = 1
            /\ \A k \in 1..Len(counts) :
                 counts[k].idx = i =>
                   /\ counts[k].path = paths[i]
                   /\ counts[k].res = CountedAlone(paths[i])
                   /\ ~counts[k].res.ok <=> MustFail(file_at(args.fs, paths[i]), args.opts)
                   /\ counts[k].res.ok => counts[k].res.counts.bytes # None
       /\ pc = "done" =>
            /\ ret = Some(Returned_Ok)
            /\ output # None
            /\ Len(output[1].rows) = Len(paths)

\* three paths: "a" is missing and fails, "b/c" and "b//c" name a file that
\* is counted; run has printed three rows and returned Ok
C1_Witness ==
  /\ args.files = <<<<98, 47, 99>>, <<97>>, <<98, 47, 47, 99>>>>
  /\ file_at(args.fs, <<97>>) = Missing
  /\ file_at(args.fs, <<98, 47, 99>>) = RegularFile(GoodContent)
  /\ pc = "done"
  /\ ret = Some(Returned_Ok)
  /\ Len(counts) = 3
  /\ ~counts[1].res.ok
  /\ counts[2].res = Ok(Counts(Some(3), None, Some(2), Some(1)))
  /\ counts[3].res = counts[2].res

\* C2: whatever the order of the workers, the sort begins only when every
\* input has its outcome; the list handed to print is in ascending path
\* order, is a permutation of the entries of the inputs, and keeps entries
\* of equal paths in their input order.
C2_ReportOrdering ==
  /\ (pc \in {"sort", "print"} \/ output # None) =>
       /\ \A i \in DOMAIN slots : slots[i] # None
       /\ ListMode \/ FilesMode =>
            /\ Len(counts) = Len(slots)
            /\ \A i \in DOMAIN slots : \E k \in 1..Len(counts) : counts[k] = slots[i][1]
  /\ (pc = "print" \/ output # None) =>
       /\ \A i \in 1..Len(counts) : \A j \in 1..Len(counts) :
            i < j =>
              /\ compare_entries(counts[i], counts[j]) # "Greater"
              /\ compare_entries(counts[j], counts[i]) # "Less"
              /\ compare_entries(counts[i], counts[j]) = "Equal" => counts[i].idx < counts[j].idx
  /\ output # None =>
       /\ Len(output[1].rows) = Len(counts)
       /\ \A i \in 1..Len(counts) : output[1].rows[i].path = counts[i].path

\* "b/c", "b//c", "a" has been printed as "a", "b/c", "b//c"
C2_Witness ==
  /\ args.files = <<<<98, 47, 99>>, <<98, 47, 47, 99>>, <<97>>>>
  /\ output # None
  /\ [i \in 1..Len(counts) |-> counts[i].idx] = <<3, 1, 2>>
  /\ [i \in 1..3 |-> output[1].rows[i].path] = <<<<97>>, <<98, 47, 99>>, <<98, 47, 47, 99>>>>

\* the stream the path list is read from
ListStream ==
  IF args.files0_from = Some(Dash) THEN args.input
  ELSE File_open(file_at(args.fs, args.files0_from[1])).file

\* read_paths0_from has returned
IngestReturned ==
  /\ ListMode
  /\ pc \in {"count", "sort", "print", "done"}
  /\ args.files0_from # Some(Dash) => File_open(file_at(args.fs, args.files0_from[1])).ok

FailedReads(reads) == Cardinality({i \in 1..Len(reads) : ~reads[i].ok})

\* the bytes of the reads that do not fail
RECURSIVE bytes_read(_)
bytes_read(reads) ==
  IF reads = <<>> THEN <<>>
  ELSE (IF Head(reads).ok THEN Head(reads).buf ELSE <<>>) \o bytes_read(Tail(reads))

\* the segments of bytes each ended by a byte of delims, and the rest of
\* bytes if it is not empty
RECURSIVE segments_of(_, _, _, _)
segments_of(bytes, delims, i, segment) ==
  IF i > Len(bytes) THEN (IF segment = <<>> THEN <<>> ELSE <<segment>>)
  ELSE IF bytes[i] \in delims THEN <<segment>> \o segments_of(bytes, delims, i + 1, <<>>)
  ELSE segments_of(bytes, delims, i + 1, Append(segment, bytes[i]))

SplitOn(bytes, delims) == segments_of(bytes, delims, 1, <<>>)

NotUtf8(segment) == ~ValidUtf8(segment)

NothingCounted ==
  /\ paths = <<>>
  /\ slots = <<>>
  /\ counts = <<>>
  /\ output = None

\* C9: read_paths0_from splits the stream on NUL and returns the ordered
\* list of paths only if every segment splits and decodes as UTF-8; with a
\* split failure it returns one MANY error holding all the split failures
\* and nothing of the decoding; else, with a segment that is not UTF-8, one
\* MANY error holding one PATH error per such segment; never a partial list;
\* on an ingestion error run returns it and no input is counted.
C9_Ingestion ==
  /\ (ListMode /\ pc \in {"start", "split"}) => NothingCounted /\ ret = None
  /\ IngestReturned =>
       LET reads == ListStream.reads
           failed == FailedReads(reads)
           segments == SplitOn(bytes_read(reads), {0})
           invalid == SelectSeq(segments, NotUtf8)
       IN IF failed > 0
            THEN /\ ret = Some(Returned_Err(Error_MANY([i \in 1..failed |-> Error("IO")])))
                 /\ pc = "done"
                 /\ NothingCounted
          ELSE IF invalid # <<>>
            THEN /\ ret = Some(Returned_Err(Error_MANY(
                                 [i \in 1..Len(invalid) |-> Error_PATH(invalid[i])])))
                 /\ pc = "done"
                 /\ NothingCounted
          ELSE /\ paths = segments
               /\ ret \in {None, Some(Returned_Ok)}

\* the list "a", NUL, 0xFF: run has returned MANY of one PATH error, the
\* valid path "a" is in no list and nothing is counted
C9_Witness ==
  /\ args.files0_from = Some(Dash)
  /\ args.files = <<>>
  /\ FailedReads(args.input.reads) = 0
  /\ bytes_read(args.input.reads) = <<97, 0, 255>>
  /\ pc = "done"
  /\ ret = Some(Returned_Err(Error_MANY(<<Error_PATH(<<255>>)>>)))
  /\ NothingCounted

\* C10: with the path list designator "-", the list read from standard
\* input is separated by newlines: every line of a stream of UTF-8 lines
\* with no NUL is one of the paths given to count_paths.
C10_NewlineSeparated ==
  (/\ args.files0_from = Some(Dash)
   /\ args.files = <<>>
   /\ pc \in {"count", "sort", "print", "done"}
   /\ FailedReads(args.input.reads) = 0
   /\ \A i \in 1..Len(bytes_read(args.input.reads)) :
        bytes_read(args.input.reads)[i] \in {10, 97}) =>
    paths = SplitOn(bytes_read(args.input.reads), {10})

\* C11: run given a path list designator together with explicit paths
\* returns an error before the path list is opened or read, before any
\* input is counted and before anything is written; for every designator,
\* "-" included.
C11_ConflictFirst ==
  (args.files0_from # None /\ args.files # <<>>) =>
    /\ pc \in {"start", "done"}
    /\ split = NoSplit
    /\ NothingCounted
    /\ opts = args.opts
    /\ pc = "start" => ret = None
    /\ pc = "done" => ret = Some(Returned_Err(Error("CUSTOM")))

\* "-" with the operand "a", and bytes waiting on standard input: run has
\* returned the error and has read nothing
C11_Witness ==
  /\ args.files0_from = Some(Dash)
  /\ args.files = <<<<97>>>>
  /\ args.input.reads # <<>>
  /\ pc = "done"
  /\ ret = Some(Returned_Err(Error("CUSTOM")))
  /\ split = NoSplit
  /\ output = None

StdinMode == args.files0_from = None /\ args.files = <<>>

\* C12: with no explicit path and no path list designator the result list
\* has exactly one entry, labelled "Stdin", holding the count of the input
\* stream, and show_totals is true whatever was asked; in the two other
\* modes show_totals and the four metric flags reach print unchanged.
C12_StdinMode ==
  /\ (StdinMode /\ pc \in {"sort", "print", "done"}) =>
       /\ Len(counts) = 1
       /\ counts[1].path = StdinLabel
       /\ counts[1].res = Countable_count(args.input, args.opts.bytes, args.opts.chars,
                                          args.opts.words, args.opts.lines).res
       /\ counts[1].res.ok <=>
            /\ FailedReads(args.input.reads) = 0
            /\ args.opts.chars => ValidUtf8(bytes_read(args.input.reads))
       /\ counts[1].res.ok =>
            counts[1].res.counts.bytes = Some(Len(bytes_read(args.input.reads)))
       /\ opts.show_totals
       /\ \A m \in {"bytes", "chars", "words", "lines"} : opts[m] = args.opts[m]
       /\ paths = <<>> /\ slots = <<>>
       /\ pc = "done" =>
            /\ ret = Some(Returned_Ok)
            /\ output # None
            /\ Len(output[1].rows) = 1
            /\ output[1].rows[1].path = StdinLabel
            /\ output[1].header = <<"path">> \o requested_metrics(args.opts)
            /\ output[1].totals # None
  /\ ~StdinMode =>
       /\ opts = args.opts
       /\ output # None =>
            /\ output[1].header = <<"path">> \o requested_metrics(args.opts)
            /\ output[1].totals # None <=> args.opts.show_totals

\* the text of test_run_stdin with show_totals not asked: the row Stdin
\* 38, 8, 1 and the totals 38, 8, 1 are printed
C12_Witness ==
  /\ StdinMode
  /\ ~args.opts.show_totals
  /\ bytes_read(args.input.reads) = StdinText
  /\ pc = "done"
  /\ Len(counts) = 1
  /\ output[1].rows[1].path = StdinLabel
  /\ output[1].rows[1].cells = <<Some(38), Some(8), Some(1)>>
  /\ output[1].totals = Some(<<38, 8, 1>>)

(***************************************************************************)
(* SpecPrint: print called with a list of results and options.             *)
(***************************************************************************)
\* the two results of test_print_csv; the result of count_bytes, with bytes
\* alone; two failed counts
PrintResults ==
  {Ok(Counts(Some(6), Some(7), Some(8), Some(9))),
   Ok(Counts(Some(2), Some(3), Some(4), Some(5))),
   Ok(Counts(Some(4096), None, None, None)),
   Err("IO"),
   Err("UTF8")}

InitPrint ==
  /\ ScanIdle
  /\ DispatchIdle
  /\ \E n \in 0..MaxPaths :
       \E rs \in [1..n -> PrintResults] :
         \E o \in {Options(b, c, w, l, t) : b, c, w, l, t \in BOOLEAN} :
           /\ args = [opts |-> o, files0_from |-> None, files |-> <<>>,
                      input |-> NoInput, fs |-> <<>>]
           /\ pc = "print"
           /\ opts = o
           /\ split = NoSplit
           /\ paths = <<>>
           /\ slots = <<>>
           /\ counts = [i \in 1..n |-> [res |-> rs[i], path |-> <<97>>, idx |-> i]]
           /\ output = None
           /\ ret = None

NextPrint == Print_counts

SpecPrint == InitPrint /\ [][NextPrint]_vars

\* what entry e adds to the total of metric m
Contribution(e, m) ==
  IF e.res.ok /\ e.res.counts[m] # None THEN e.res.counts[m][1] ELSE 0

\* the sum of metric m over the first n entries
RECURSIVE SumOf(_, _, _)
SumOf(entries, m, n) ==
  IF n = 0 THEN 0 ELSE SumOf(entries, m, n - 1) + Contribution(entries[n], m)

\* C13: with show_totals set the output has one more row, the last, whose
\* value for each requested metric is the sum of the metric over the
\* successful entries, an absent metric adding nothing and a failed entry
\* adding zero to every total; with show_totals not set there is no totals
\* row.
C13_Totals ==
  output # None =>
    LET out == output[1]
        cols == requested_metrics(opts)
    IN /\ Len(out.rows) = Len(counts)
       /\ opts.show_totals =>
            /\ out.totals # None
            /\ Len(out.totals[1]) = Len(cols)
            /\ \A i \in 1..Len(cols) :
                 out.totals[1][i] = SumOf(counts, cols[i], Len(counts))
       /\ ~opts.show_totals => out.totals = None

\* all four metrics asked with totals: the first result of test_print_csv, a
\* failed count and a result with bytes alone give the totals 4102, 7, 8, 9
C13_Witness ==
  /\ opts = Options(TRUE, TRUE, TRUE, TRUE, TRUE)
  /\ [i \in 1..Len(counts) |-> counts[i].res] =
       <<Ok(Counts(Some(6), Some(7), Some(8), Some(9))),
         Err("IO"),
         Ok(Counts(Some(4096), None, None, None))>>
  /\ output # None
  /\ output[1].totals = Some(<<4102, 7, 8, 9>>)

\* C14: for every readable, one whose reads keep failing included,
\* read_paths0_from eventually returns: a run that is splitting the path
\* list comes to be past the split.
C14_IngestionReturns == (pc = "split") ~> (pc # "split")

=============================================================================
